---- MODULE Spec2Model ----
(***************************************************************************)
(* sails-hook-orm-mongoose: the `configure` / `initialize` lifecycle of    *)
(* the hook, in its two versions (src/index.js and src/unnamed/part_000).  *)
(*                                                                         *)
(* JavaScript runs every handler to completion, so the only interleaving   *)
(* points are the `await` on `mongoose.connect` and the module loader's    *)
(* callback.  A call of the guarded wrapper `cb` is a step of its own      *)
(* (pc = "cb", the call's argument and call site in `pending`); nothing    *)
(* else is enabled while it is in flight.  The loader may invoke its       *)
(* callback inside the call of loadModels (pc = "loadingSync"), in which   *)
(* case what the callback throws lands in initialize's own catch block, or *)
(* in a later turn (pc = "loading"), and may invoke it more than once.     *)
(* An exception that escapes initialize (out of the loader's later turn,   *)
(* or as the rejection of initialize's promise) ends the process.          *)
(***************************************************************************)
EXTENDS Naturals, Sequences, FiniteSets

VARIABLES
  variant,                      \* which of the two source files is loaded
  config,                       \* sails.config: uri, connectionOpts, globals
  pc,                           \* position in the hook's lifecycle
  pending,                      \* the call of `cb` in flight: site and argument
  hasAlreadyTriggeredCallback,  \* the guard closed over by `cb`
  cbArgs,                       \* the arguments `_cb` was invoked with, in order
  connectCalls,                 \* calls of mongoose.connect
  connection,                   \* the promise mongoose.connect returned
  loadModelsCalls,              \* calls of sails.modules.loadModels
  loaderCbCalls,                \* invocations of modulesLoaded by the loader
  loaded,                       \* the loader has enumerated the definitions
  modules,                      \* the definitions the loader passes, in key order
  compiled,                     \* schemas compiled by the latest modulesLoaded
  handles,                      \* the Model Handles constructed, by reference
  models,                       \* sails.models: identity -> handle reference
  modelsAssigned,               \* sails.models has been assigned
  globalScope,                  \* global: name -> handle reference
  log,                          \* sails.log lines, in order
  fault                         \* the error that escaped initialize, if any

vars == << variant, config, pc, pending, hasAlreadyTriggeredCallback, cbArgs,
           connectCalls, connection, loadModelsCalls, loaderCbCalls, loaded,
           modules, compiled, handles, models, modelsAssigned, globalScope, log,
           fault >>

(***************************************************************************)
(* Bounds                                                                  *)
(***************************************************************************)
MaxModels == 2

MaxLoaderCalls == 2

(***************************************************************************)
(* JavaScript values, by the properties the code inspects                  *)
(***************************************************************************)
JsValues == { "undefined", "null", "true", "false", "string", "emptyDict",
              "dict", "array", "function", "functionThrows" }

TypeOf(v) ==
  CASE v = "undefined" -> "undefined"
    [] v \in {"true", "false"} -> "boolean"
    [] v = "string" -> "string"
    [] v \in {"function", "functionThrows"} -> "function"
    [] OTHER -> "object"

IsArray(v) == v = "array"

Truthy(v) == v \notin {"undefined", "null", "false"}

Variants == {"index", "part_000"}

\* sails.config.globals is absent, `false`, or a dictionary with a `models` key
GlobalsValues ==
  { [kind |-> "undefined", models |-> "undefined"],
    [kind |-> "false", models |-> "undefined"] }
  \cup [kind : {"dict"}, models : {"true", "false", "undefined", "string"}]

TypeOfGlobals(g) == IF g.kind = "dict" THEN "object" ELSE TypeOf(g.kind)

Configs ==
  [ uri : {"string", "undefined"},
    connectionOpts : {"dict", "array", "null", "undefined"},
    globals : GlobalsValues ]

(***************************************************************************)
(* Errors: a type and a message (a sequence of text fragments)             *)
(***************************************************************************)
NoErr == [type |-> "none", message |-> << >>]

NewError(msg) == [type |-> "Error", message |-> msg]

Range(s) == { s[i] : i \in DOMAIN s }

(***************************************************************************)
(* configure()                                                             *)
(***************************************************************************)
GlobalsModelsInvalid(c) ==
  TypeOfGlobals(c.globals) = "object" /\ TypeOf(c.globals.models) # "boolean"

UriInvalid(c) == TypeOf(c.uri) # "string"

ConnectionOptsInvalid(c) ==
  TypeOf(c.connectionOpts) # "object" \/ IsArray(c.connectionOpts)

\* the error configure() throws, NoErr when it returns
configure(v, c) ==
  IF v = "index" /\ GlobalsModelsInvalid(c)
    THEN NewError(<< "sails.config.globals.models", "must be either true or false" >>)
  ELSE IF UriInvalid(c)
    THEN NewError(<< "sails.config.mongoose.uri", "Expected Mongo connection URI (a string)" >>)
  ELSE IF ConnectionOptsInvalid(c)
    THEN NewError(<< "sails.config.mongoose.connectionOpts", "must be a dictionary" >>)
  ELSE NoErr

(***************************************************************************)
(* Model definitions, as the module loader hands them to modulesLoaded     *)
(***************************************************************************)
IdentityPool == << "alpha", "beta", "gamma", "delta" >>

\* the loader derives both keys from the file name: `Alpha.js` gives the
\* identity `alpha` and the globalId `Alpha`
GlobalIdPool == << "Alpha", "Beta", "Gamma", "Delta" >>

\* the `schema` and `constructSchema` fields a definition file can carry
DefShapes ==
  { [schema |-> "undefined", constructSchema |-> "undefined"],
    [schema |-> "dict", constructSchema |-> "undefined"],
    [schema |-> "null", constructSchema |-> "undefined"],
    [schema |-> "array", constructSchema |-> "undefined"],
    [schema |-> "dict", constructSchema |-> "function"],
    [schema |-> "dict", constructSchema |-> "functionThrows"],
    [schema |-> "dict", constructSchema |-> "string"] }

Defs ==
  { [identity |-> IdentityPool[i], globalId |-> GlobalIdPool[i],
     schema |-> sh.schema, constructSchema |-> sh.constructSchema] :
    i \in 1..MaxModels, sh \in DefShapes }

\* a dictionary keyed by identity, in the order `for ... in` enumerates it
ModuleLists ==
  UNION { { s \in [1..n -> Defs] :
              \A i, j \in 1..n : i # j => s[i].identity # s[j].identity } :
          n \in 0..MaxModels }

EnumerationError == [type |-> "LoaderError", message |-> << "could not read models" >>]

LoaderThrown == [type |-> "LoaderThrow", message |-> << "loadModels threw" >>]

CallerError == [type |-> "CallerError", message |-> << "_cb threw" >>]

InterceptorThrown == [type |-> "InterceptorError", message |-> << "interceptor failed" >>]

\* what mongoose.connect can reject with
ConnectFailures ==
  { [type |-> "MongoNetworkError", message |-> << "ECONNREFUSED" >>],
    [type |-> "MongoParseError", message |-> << "Invalid connection string" >>] }

(***************************************************************************)
(* Schema compilation: the first loop of modulesLoaded                     *)
(***************************************************************************)
\* `if (typeof def.schema === 'undefined') def.schema = {}` (mutates the def)
DefaultSchema(def) ==
  IF TypeOf(def.schema) = "undefined" THEN [def EXCEPT !.schema = "emptyDict"] ELSE def

SchemaInvalid(def) == TypeOf(def.schema) # "object" \/ IsArray(def.schema)

NoSchema == [builtBy |-> "none", definition |-> "none"]

\* one iteration of the loop on a def whose schema has been defaulted:
\* the error thrown (NoErr if none) and the entry written to `schemas`
CompileOne(def) ==
  IF SchemaInvalid(def)
    THEN [err |-> NewError(<< "Invalid schema provided in model", def.identity,
                              "If provided, schema must be a dictionary." >>),
          schema |-> NoSchema]
  ELSE IF TypeOf(def.constructSchema) = "undefined"
    THEN [err |-> NoErr,
          schema |-> [builtBy |-> "mongoose.Schema", definition |-> def.schema]]
  ELSE IF TypeOf(def.constructSchema) = "function"
    THEN IF def.constructSchema = "functionThrows"
           THEN [err |-> [InterceptorThrown EXCEPT !.message =
                            << "Encountered an error when running constructSchema interceptor provided for model",
                               def.identity, "Details:" >> \o InterceptorThrown.message],
                 schema |-> NoSchema]
           ELSE [err |-> NoErr,
                 schema |-> [builtBy |-> "constructSchema", definition |-> def.schema]]
  ELSE [err |-> NewError(<< "Invalid constructSchema interceptor provided in model", def.identity,
                            "If provided, constructSchema must be a function." >>),
        schema |-> NoSchema]

\* a loop that remembers the first error but compiles the remaining definitions
RECURSIVE CompileFromKeepsGoing(_, _, _)
CompileFromKeepsGoing(mods, i, schemas) ==
  IF i > Len(mods)
    THEN [mods |-> mods, schemas |-> schemas, err |-> NoErr]
    ELSE LET def == DefaultSchema(mods[i])
             touched == [mods EXCEPT ![i] = def]
             one == CompileOne(def)
         IN IF one.err # NoErr
              THEN [CompileFromKeepsGoing(touched, i + 1, schemas) EXCEPT !.err = one.err]
              ELSE CompileFromKeepsGoing(touched, i + 1,
                     Append(schemas, [identity |-> def.identity, schema |-> one.schema]))

\* the loop from definition i on: it stops at the first definition that throws
RECURSIVE CompileFrom(_, _, _)
CompileFrom(mods, i, schemas) ==
  IF i > Len(mods)
    THEN [mods |-> mods, schemas |-> schemas, err |-> NoErr]
    ELSE LET def == DefaultSchema(mods[i])
             touched == [mods EXCEPT ![i] = def]
             one == CompileOne(def)
         IN IF one.err # NoErr
              THEN [mods |-> touched, schemas |-> schemas, err |-> one.err]
              ELSE CompileFrom(touched, i + 1,
                     Append(schemas, [identity |-> def.identity, schema |-> one.schema]))

CompileSchemas(mods) == CompileFrom(mods, 1, << >>)

(***************************************************************************)
(* Model registration: the second loop of modulesLoaded                    *)
(***************************************************************************)
DefOf(mods, identity) == mods[CHOOSE i \in DOMAIN mods : mods[i].identity = identity]

\* a registration that stamps the lookup key into both metadata fields
NewHandleStampsIdentityTwice(mods, entry) ==
  [ modelName |-> DefOf(mods, entry.identity).globalId,
    schema |-> entry.schema,
    globalId |-> entry.identity,
    identity |-> entry.identity ]

\* sails.mongoose.model(name, schema), then the two stamps
NewHandle(mods, entry) ==
  [ modelName |-> DefOf(mods, entry.identity).globalId,
    schema |-> entry.schema,
    globalId |-> DefOf(mods, entry.identity).globalId,
    identity |-> entry.identity ]

\* the handles constructed for `schemas`, in order
NewHandles(mods, schemas) == [ i \in 1..Len(schemas) |-> NewHandle(mods, schemas[i]) ]

\* a registration loop that stops one entry short
RegistrySkipsLast(schemas, base) ==
  [ id \in { schemas[i].identity : i \in 1..(Len(schemas) - 1) } |->
      base + (CHOOSE i \in DOMAIN schemas : schemas[i].identity = id) ]

\* sails.models after the loop: identity -> reference of its handle, where
\* the handles are appended to a heap that already holds `base` of them
Registry(schemas, base) ==
  [ id \in { schemas[i].identity : i \in DOMAIN schemas } |->
      base + (CHOOSE i \in DOMAIN schemas : schemas[i].identity = id) ]

ExposureEnabled(c) == TypeOfGlobals(c.globals) = "object" /\ Truthy(c.globals.models)

\* an exposure step that does not consult the flag
ExposeGlobalsAlways(c, reg, heap, scope) ==
  LET names == { heap[reg[id]].globalId : id \in DOMAIN reg }
  IN [ n \in DOMAIN scope \cup names |->
         IF n \in names
           THEN reg[CHOOSE id \in DOMAIN reg : heap[reg[id]].globalId = n]
           ELSE scope[n] ]

\* the global scope after `global[Model.globalId] = Model` for every model
ExposeGlobals(c, reg, heap, scope) ==
  IF ExposureEnabled(c)
    THEN LET names == { heap[reg[id]].globalId : id \in DOMAIN reg }
         IN [ n \in DOMAIN scope \cup names |->
                IF n \in names
                  THEN reg[CHOOSE id \in DOMAIN reg : heap[reg[id]].globalId = n]
                  ELSE scope[n] ]
    ELSE scope

(***************************************************************************)
(* The guarded completion wrapper                                          *)
(***************************************************************************)
NoPending == [site |-> "none", sync |-> FALSE, err |-> NoErr]

\* cb without the guard: every call is forwarded
cbOutcomeNoGuard(guard, err) == "forward"

\* cb that only warns on any repeated call, error or not
cbOutcomeLateErrorSwallowed(guard, err) == IF guard THEN "swallow" ELSE "forward"

\* cb that escalates every repeated call, error or not
cbOutcomeLateAlwaysThrows(guard, err) == IF guard THEN "throw" ELSE "forward"

\* what a call cb(err) does, given the guard: forward to _cb, throw err, or
\* log a warning and return
cbOutcome(guard, err) ==
  IF guard
    THEN IF err # NoErr THEN "throw" ELSE "swallow"
    ELSE "forward"

cbLogLines(outcome) ==
  CASE outcome = "throw" ->
         << "error: initialize was called again",
            "error: Proceeding to crash the server" >>
    [] outcome = "swallow" -> << "warn: initialize was called again" >>
    [] OTHER -> << >>

\* where control goes when the call of cb at `site` returns (thrown = NoErr)
\* or throws: the try block of modulesLoaded hands the exception to its catch
\* block, which calls cb again; from the other two sites of modulesLoaded it
\* escapes into the loader, and from there into initialize's catch block when
\* the loader was still inside loadModels (sync); otherwise it escapes
\* initialize
AfterCb(site, sync, thrown) ==
  IF thrown = NoErr
    THEN [pc |-> IF site = "outerCatch" THEN "returned" ELSE "loading",
          pending |-> NoPending, fault |-> NoErr]
  ELSE IF site = "loaderTry"
    THEN [pc |-> "cb",
          pending |-> [site |-> "loaderCatch", sync |-> sync, err |-> thrown],
          fault |-> NoErr]
  ELSE IF site \in {"loaderErr", "loaderCatch"} /\ sync
    THEN [pc |-> "cb",
          pending |-> [site |-> "outerCatch", sync |-> FALSE, err |-> thrown],
          fault |-> NoErr]
  ELSE [pc |-> "crashed", pending |-> NoPending, fault |-> thrown]

(***************************************************************************)
(* The lifecycle                                                           *)
(***************************************************************************)
EmptyMap == [ x \in {} |-> 0 ]

Init ==
  /\ variant \in Variants
  /\ config \in Configs
  /\ pc = "boot"
  /\ pending = NoPending
  /\ hasAlreadyTriggeredCallback = FALSE
  /\ cbArgs = << >>
  /\ connectCalls = 0
  /\ connection = [state |-> "none", reason |-> NoErr]
  /\ loadModelsCalls = 0
  /\ loaderCbCalls = 0
  /\ loaded = FALSE
  /\ modules = << >>
  /\ compiled = << >>
  /\ handles = << >>
  /\ models = EmptyMap
  /\ modelsAssigned = FALSE
  /\ globalScope = EmptyMap
  /\ log = << >>
  /\ fault = NoErr

\* the host calls configure(); a throw stops the hook from being initialized
RunConfigure ==
  /\ pc = "boot"
  /\ pc' = IF configure(variant, config) = NoErr THEN "configured" ELSE "rejected"
  /\ UNCHANGED << variant, config, pending, hasAlreadyTriggeredCallback, cbArgs,
                  connectCalls, connection, loadModelsCalls, loaderCbCalls, loaded,
                  modules, compiled, handles, models, modelsAssigned, globalScope,
                  log, fault >>

\* initialize(_cb) up to the await: the call of mongoose.connect
initialize ==
  /\ pc = "configured"
  /\ connectCalls' = connectCalls + 1
  /\ connection' = [state |-> "pending", reason |-> NoErr]
  /\ pc' = "connecting"
  /\ UNCHANGED << variant, config, pending, hasAlreadyTriggeredCallback, cbArgs,
                  loadModelsCalls, loaderCbCalls, loaded, modules,
                  compiled, handles, models, modelsAssigned, globalScope, log, fault >>

\* the connection is up: initialize resumes and calls loadModels, which
\* throws into the outer catch, invokes its callback before it returns, or
\* returns and invokes its callback in a later turn
connectResolved ==
  /\ pc = "connecting"
  /\ connection' = [state |-> "resolved", reason |-> NoErr]
  /\ log' = log \o << "info: Connected to MongoDB database",
                      "verbose: Loading the app's models" >>
  /\ loadModelsCalls' = loadModelsCalls + 1
  /\ \E loader \in {"throws", "sync", "async"} :
       IF loader = "throws"
         THEN /\ pc' = "cb"
              /\ pending' = [site |-> "outerCatch", sync |-> FALSE, err |-> LoaderThrown]
         ELSE /\ pc' = IF loader = "sync" THEN "loadingSync" ELSE "loading"
              /\ pending' = pending
  /\ UNCHANGED << variant, config, hasAlreadyTriggeredCallback, cbArgs,
                  connectCalls, loaderCbCalls, loaded, modules,
                  compiled, handles, models, modelsAssigned, globalScope, fault >>

\* a `.catch` handler that rethrows the failure it was given
WrapConnectErrorRethrows(err) == err

\* what the `.catch` handler of the connect promise throws
WrapConnectError(err) == NewError(err.message)

\* the connection failed: the wrapped error lands in the outer catch
connectRejected ==
  /\ pc = "connecting"
  /\ \E err \in ConnectFailures :
       /\ connection' = [state |-> "rejected", reason |-> err]
       /\ pending' = [site |-> "outerCatch", sync |-> FALSE, err |-> WrapConnectError(err)]
  /\ log' = Append(log, "error: Failed to connect to MongoDB database")
  /\ pc' = "cb"
  /\ UNCHANGED << variant, config, hasAlreadyTriggeredCallback, cbArgs,
                  connectCalls, loadModelsCalls, loaderCbCalls, loaded, modules,
                  compiled, handles, models, modelsAssigned, globalScope, fault >>

\* the loader invokes modulesLoaded(err, modules), up to its call of cb
modulesLoaded ==
  /\ pc \in {"loading", "loadingSync"}
  /\ loaderCbCalls < MaxLoaderCalls
  /\ loaderCbCalls' = loaderCbCalls + 1
  /\ pc' = "cb"
  /\ \E err \in {NoErr, EnumerationError} :
     \E mods \in (IF err # NoErr THEN {modules}
                  ELSE IF loaded THEN {modules} ELSE ModuleLists) :
       IF err # NoErr
         THEN /\ pending' = [site |-> "loaderErr", sync |-> (pc = "loadingSync"), err |-> err]
              /\ UNCHANGED << loaded, modules, compiled, handles, models,
                              modelsAssigned, globalScope >>
         ELSE LET r == CompileSchemas(mods) IN
              /\ loaded' = TRUE
              /\ modules' = r.mods
              /\ compiled' = r.schemas
              /\ IF r.err # NoErr
                   THEN /\ pending' = [site |-> "loaderCatch", sync |-> (pc = "loadingSync"),
                                        err |-> r.err]
                        /\ UNCHANGED << handles, models, modelsAssigned, globalScope >>
                   ELSE LET heap == handles \o NewHandles(r.mods, r.schemas)
                            reg == Registry(r.schemas, Len(handles))
                        IN /\ handles' = heap
                           /\ models' = reg
                           /\ modelsAssigned' = TRUE
                           /\ globalScope' = ExposeGlobals(config, reg, heap, globalScope)
                           /\ pending' = [site |-> "loaderTry", sync |-> (pc = "loadingSync"),
                                           err |-> NoErr]
  /\ UNCHANGED << variant, config, hasAlreadyTriggeredCallback, cbArgs,
                  connectCalls, connection, loadModelsCalls, log, fault >>

\* a cb that trips the guard only once _cb has returned
cbGuardSetAfterForward(guard, outcome, callerThrows) ==
  IF outcome = "forward" /\ ~callerThrows THEN TRUE ELSE guard

\* the guard when the call of cb is over: it is set before _cb is called, so
\* it is tripped whether _cb returns or throws
cbGuard(guard, outcome, callerThrows) ==
  IF outcome = "forward" THEN TRUE ELSE guard

\* the call cb(pending.err): _cb either returns or throws
cb ==
  /\ pc = "cb"
  /\ LET outcome == cbOutcome(hasAlreadyTriggeredCallback, pending.err) IN
     /\ cbArgs' = IF outcome = "forward" THEN Append(cbArgs, pending.err) ELSE cbArgs
     /\ log' = log \o cbLogLines(outcome)
     /\ \E callerThrows \in (IF outcome = "forward" THEN BOOLEAN ELSE {FALSE}) :
          LET thrown == IF outcome = "throw" THEN pending.err
                        ELSE IF callerThrows THEN CallerError
                        ELSE NoErr
              next == AfterCb(pending.site, pending.sync, thrown)
          IN /\ hasAlreadyTriggeredCallback' =
                  cbGuard(hasAlreadyTriggeredCallback, outcome, callerThrows)
             /\ pc' = next.pc
             /\ pending' = next.pending
             /\ fault' = IF next.fault # NoErr THEN next.fault ELSE fault
  /\ UNCHANGED << variant, config, connectCalls, connection, loadModelsCalls,
                  loaderCbCalls, loaded, modules, compiled, handles, models, modelsAssigned,
                  globalScope >>

Next ==
  \/ RunConfigure
  \/ initialize
  \/ connectResolved
  \/ connectRejected
  \/ modulesLoaded
  \/ cb

Spec == Init /\ [][Next]_vars

(***************************************************************************)
(* Properties                                                              *)
(***************************************************************************)
LateErrorLines ==
  << "error: initialize was called again", "error: Proceeding to crash the server" >>

LateWarnLine == "warn: initialize was called again"

\* C1: within one initialize() run _cb is invoked at most once: the guard is
\* tripped exactly when _cb has been invoked, and a call of cb made while the
\* guard is tripped never adds an invocation of _cb.
C1_CallbackAtMostOnce ==
  /\ Len(cbArgs) <= 1
  /\ hasAlreadyTriggeredCallback <=> (Len(cbArgs) = 1)

\* a run in which cb was called again after _cb had been invoked
C1_Witness ==
  /\ Len(cbArgs) = 1
  /\ pc # "cb"
  /\ \/ LateWarnLine \in Range(log)
     \/ LateErrorLines[2] \in Range(log)

\* C3: a call of cb with an error while the guard is tripped does not reach
\* _cb: it logs the two error lines and throws that error, whatever the call
\* site.  The error escapes initialize and ends the process; thrown inside a
\* loader callback that runs within loadModels it first lands in initialize's
\* catch block, whose call of cb throws it again.
C3_LateErrorIsThrown ==
  [][ (pc = "cb" /\ hasAlreadyTriggeredCallback /\ pending.err # NoErr)
        => /\ cbArgs' = cbArgs
           /\ hasAlreadyTriggeredCallback'
           /\ log' = log \o LateErrorLines
           /\ models' = models
           /\ globalScope' = globalScope
           /\ IF pending.sync
                THEN /\ pc' = "cb"
                     /\ pending' = [site |-> "outerCatch", sync |-> FALSE,
                                     err |-> pending.err]
                     /\ fault' = fault
                ELSE /\ pc' = "crashed"
                     /\ fault' = pending.err ]_vars

\* the process has ended on an error thrown by a late call of cb
C3_Witness ==
  /\ pc = "crashed"
  /\ Len(cbArgs) = 1
  /\ fault # NoErr
  /\ Len(log) >= 2
  /\ SubSeq(log, Len(log) - 1, Len(log)) = LateErrorLines

\* C4: a call of cb with no error while the guard is tripped is swallowed:
\* one warning is logged, _cb is not invoked, nothing is thrown, and the
\* guard, the registry, the handles and the global bindings stay as they were.
C4_LateSuccessIsSwallowed ==
  [][ (pc = "cb" /\ hasAlreadyTriggeredCallback /\ pending.err = NoErr)
        => /\ cbArgs' = cbArgs
           /\ log' = Append(log, LateWarnLine)
           /\ fault' = fault
           /\ pc' = "loading"
           /\ hasAlreadyTriggeredCallback' = hasAlreadyTriggeredCallback
           /\ models' = models
           /\ modelsAssigned' = modelsAssigned
           /\ handles' = handles
           /\ globalScope' = globalScope ]_vars

\* a late call of cb with no error has returned
C4_Witness ==
  /\ pc = "loading"
  /\ Len(cbArgs) = 1
  /\ fault = NoErr
  /\ Len(log) >= 1
  /\ log[Len(log)] = LateWarnLine

Identities(mods) == { mods[i].identity : i \in DOMAIN mods }

\* the run is over: the connection attempt has settled and the loader has
\* thrown or has called back once, and no call of cb is in flight
InitializeEnded ==
  /\ loaderCbCalls <= 1
  /\ \/ pc \in {"returned", "crashed"}
     \/ pc = "loading" /\ loaderCbCalls = 1

IsConnectionError(e) ==
  connection.state = "rejected" /\ e = NewError(connection.reason.message)

IsEnumerationError(e) == e \in {EnumerationError, LoaderThrown}

IsSchemaError(e) ==
  /\ loaded
  /\ e # NoErr
  /\ \E id \in Identities(modules) : id \in Range(e.message)

\* C2: when the connection attempt has settled and the loader has thrown or
\* called back once, _cb has been invoked exactly once: with no error and a
\* registry holding a handle for every loaded definition, or with one
\* connection, enumeration or schema error.
C2_ExactlyOneCompletion ==
  InitializeEnded =>
    /\ Len(cbArgs) = 1
    /\ IF cbArgs[1] = NoErr
         THEN /\ modelsAssigned
              /\ DOMAIN models = Identities(modules)
              /\ \A id \in DOMAIN models :
                   /\ models[id] \in DOMAIN handles
                   /\ handles[models[id]].identity = id
         ELSE \/ IsConnectionError(cbArgs[1])
              \/ IsEnumerationError(cbArgs[1])
              \/ IsSchemaError(cbArgs[1])

\* a run that ended in success with every definition registered
C2_Witness ==
  /\ InitializeEnded
  /\ pc = "loading"
  /\ cbArgs = << NoErr >>
  /\ Len(modules) >= 2
  /\ DOMAIN models = Identities(modules)

\* the flag is present and is not strictly a boolean
FlagPresentNotBoolean(c) ==
  c.globals.kind = "dict" /\ c.globals.models \notin {"undefined", "true", "false"}

\* a malformed configuration, as C5 lists the cases
C5_Malformed(c) ==
  \/ c.uri # "string"
  \/ c.connectionOpts = "array"
  \/ FlagPresentNotBoolean(c)

\* C5: from a malformed configuration (URI not a string, options an array,
\* global-exposure flag not a boolean) no connection attempt is ever made.
C5_MalformedNeverConnects ==
  C5_Malformed(config) => (connectCalls = 0 /\ connection.state = "none")

\* C6: configure() rejects exactly the configurations whose flag is present
\* and not a boolean, whose URI is not a string, or whose connection options
\* are present and not a non-array object (null included); absent optional
\* values are accepted.
C6_Rejects(c) ==
  \/ FlagPresentNotBoolean(c)
  \/ c.uri # "string"
  \/ c.connectionOpts \notin {"undefined", "dict"}

C6_RejectsExactlyMalformed ==
  pc # "boot" => ((pc = "rejected") <=> C6_Rejects(config))

\* C7: one call of mongoose.connect per run and no retry; when it fails,
\* _cb receives a new Error carrying the failure's message, the loader is
\* never asked, no schema is compiled, and neither the registry nor the
\* global scope is written.
C7_ConnectOnceAndStopOnFailure ==
  /\ connectCalls <= 1
  /\ connection.state # "none" => connectCalls = 1
  /\ connection.state = "rejected" =>
       /\ loadModelsCalls = 0
       /\ loaderCbCalls = 0
       /\ ~loaded
       /\ compiled = << >>
       /\ handles = << >>
       /\ ~modelsAssigned
       /\ models = EmptyMap
       /\ globalScope = EmptyMap
       /\ pc \in {"cb", "returned", "crashed"}
       /\ pc = "cb" => (cbArgs = << >> /\ pending.site = "outerCatch")
       /\ pc # "cb" =>
            /\ cbArgs = << NewError(connection.reason.message) >>
            /\ cbArgs[1] # connection.reason

\* the connection failed and _cb has returned
C7_Witness ==
  /\ connection.state = "rejected"
  /\ pc = "returned"
  /\ Len(cbArgs) = 1
  /\ cbArgs[1].message = connection.reason.message

\* initialization succeeded: the one invocation of _cb carried no error
Succeeded == cbArgs = << NoErr >>

\* C8: after a successful initialization with global exposure enabled, the
\* registry's keys are exactly the identities of the loaded definitions, the
\* handle under key k carries identity k and the globalId of definition k,
\* and the global named by that globalId is the very handle the registry holds.
C8_RegistryAndGlobalsAgree ==
  (Succeeded /\ ExposureEnabled(config)) =>
    /\ DOMAIN models = Identities(modules)
    /\ \A k \in DOMAIN models :
         /\ models[k] \in DOMAIN handles
         /\ handles[models[k]].identity = k
         /\ handles[models[k]].globalId = DefOf(modules, k).globalId
         /\ handles[models[k]].modelName = DefOf(modules, k).globalId
         /\ DefOf(modules, k).globalId \in DOMAIN globalScope
         /\ globalScope[DefOf(modules, k).globalId] = models[k]
    /\ \A j, k \in DOMAIN models : j # k => models[j] # models[k]

\* two definitions were registered and exposed
C8_Witness ==
  /\ Succeeded
  /\ pc = "loading"
  /\ ExposureEnabled(config)
  /\ Cardinality(DOMAIN models) >= 2
  /\ Cardinality(DOMAIN globalScope) >= 2

\* the flag is not enabled, or there is no globals configuration object
C9_ExposureDisabled(c) ==
  \/ c.globals.kind # "dict"
  \/ c.globals.models \in {"false", "undefined"}

\* C9: with global exposure disabled a successful initialization writes no
\* global binding while the registry holds a handle for every loaded
\* definition; a global binding exists only when the flag is enabled.
C9_NoGlobalsWhenDisabled ==
  /\ (Succeeded /\ C9_ExposureDisabled(config)) =>
       /\ globalScope = EmptyMap
       /\ DOMAIN models = Identities(modules)
       /\ \A k \in DOMAIN models : models[k] \in DOMAIN handles
  /\ globalScope # EmptyMap => ~C9_ExposureDisabled(config)

\* models were registered with exposure disabled
C9_Witness ==
  /\ Succeeded
  /\ pc = "loading"
  /\ C9_ExposureDisabled(config)
  /\ Cardinality(DOMAIN models) >= 2
  /\ globalScope = EmptyMap

\* the definitions whose compilation throws
Failing(mods) ==
  { i \in DOMAIN mods : CompileOne(DefaultSchema(mods[i])).err # NoErr }

FirstFailing(mods) == CHOOSE i \in Failing(mods) : \A j \in Failing(mods) : i <= j

SchemaError(mods) == CompileOne(DefaultSchema(mods[FirstFailing(mods)])).err

\* what C10 says of every failed compilation apart from who receives the
\* error: the loop stopped at the failing definition, nothing was
\* constructed, registered or exposed, and the error names the identity
C10_NothingRegistered ==
  /\ Len(compiled) = FirstFailing(modules) - 1
  /\ \A i \in DOMAIN compiled : compiled[i].identity = modules[i].identity
  /\ handles = << >>
  /\ ~modelsAssigned
  /\ models = EmptyMap
  /\ globalScope = EmptyMap
  /\ modules[FirstFailing(modules)].identity \in Range(SchemaError(modules).message)
  /\ (pc = "cb" /\ pending.site = "loaderCatch") => pending.err = SchemaError(modules)

C11_CallerFailureIsDuplicateCompletion ==
  [][ /\ (pc = "cb" /\ pending.site = "loaderTry" /\ ~hasAlreadyTriggeredCallback
            /\ pc' = "cb")
        => /\ hasAlreadyTriggeredCallback'
           /\ cbArgs' = << NoErr >>
           /\ pending' = [site |-> "loaderCatch", sync |-> pending.sync,
                          err |-> CallerError]
           /\ log' = log
           /\ fault' = fault
      /\ (pc = "cb" /\ pending.site = "loaderCatch" /\ pending.err = CallerError)
        => /\ hasAlreadyTriggeredCallback
           /\ cbArgs = << NoErr >>
           /\ cbArgs' = cbArgs
           /\ log' = log \o LateErrorLines
           /\ IF pending.sync
                THEN /\ pc' = "cb"
                     /\ pending' = [site |-> "outerCatch", sync |-> FALSE,
                                    err |-> CallerError]
                ELSE /\ pc' = "crashed"
                     /\ fault' = CallerError ]_vars

\* _cb threw on the success outcome, the catch block's call of cb rethrew
\* the error out of the loader callback, and _cb was invoked once
C11_Witness ==
  /\ pc = "crashed"
  /\ fault = CallerError
  /\ cbArgs = << NoErr >>
  /\ modelsAssigned
  /\ Cardinality(DOMAIN models) >= 1
  /\ Len(log) >= 2
  /\ SubSeq(log, Len(log) - 1, Len(log)) = LateErrorLines

====
